---- MODULE Spec2Model ----
(***************************************************************************)
(* Note-state and audio-voice engine of DJKeyTool (src/script.js).         *)
(*                                                                         *)
(* Frequencies are integers in units of 1/800 Hz, so that the product      *)
(* frequency * 2^octaveShift of the source is exact for every shift in     *)
(* [-3, 3] (a multiplication by a power of two is exact in IEEE doubles    *)
(* too).  Gain levels are integers in units of 1/1000.                     *)
(***************************************************************************)
EXTENDS Integers, Sequences, FiniteSets, TLC

\* ------------------------------------------------------------------ bounds
\* Number of tone handles (oscillator + gain node pairs) that may exist,
\* sounding or fading out, at the same time.
MaxOsc == 4

\* The pitch classes the input events of the model use: C (a fractional
\* number of Hz at every octave) and G (a whole number of Hz at every octave).
Played == {"C", "G"}

\* The pitch classes of the touch-only specification.
PlayedTouch == {"C", "G", "A"}

\* The values the volume slider is moved to (1/1000).
Volumes == {150, 700}

\* --------------------------------------------------------------- constants
\* units per Hz: hundredths of a Hz, split in eight
FreqUnit == 100 * 8

OSC_GAIN == 150

MAX_OCTAVE_SHIFT == 3

MIN_OCTAVE_SHIFT == -3

noteOrder == <<"C", "C#", "D", "D#", "E", "F", "F#", "G", "G#", "A", "A#", "B">>

NoteNames == {noteOrder[i] : i \in 1..Len(noteOrder)}

\* Hz * 100 * 8
NOTE_FREQUENCIES ==
    [n \in NoteNames |->
        8 * (CASE n = "C"  -> 26163 [] n = "C#" -> 27718 [] n = "D"  -> 29366
               [] n = "D#" -> 31113 [] n = "E"  -> 32963 [] n = "F"  -> 34923
               [] n = "F#" -> 36999 [] n = "G"  -> 39200 [] n = "G#" -> 41530
               [] n = "A"  -> 44000 [] n = "A#" -> 46616 [] n = "B"  -> 49388)]

keyboardMap ==
    [k \in {"a", "w", "s", "e", "d", "f", "t", "g", "y", "h", "u", "j"} |->
        NOTE_FREQUENCIES[CASE k = "a" -> "C"  [] k = "w" -> "C#" [] k = "s" -> "D"
                           [] k = "e" -> "D#" [] k = "d" -> "E"  [] k = "f" -> "F"
                           [] k = "t" -> "F#" [] k = "g" -> "G"  [] k = "y" -> "G#"
                           [] k = "h" -> "A"  [] k = "u" -> "A#" [] k = "j" -> "B"]]

\* The note keys the keyboard events of the model use (the octave keys z and
\* x come on top).
PlayedKeys == {"a"}

ChordTypes == {"major", "minor"}

\* ------------------------------------------------------------------- state
VARIABLES
    activeOscillators,        \* registry: sequence of voices in insertion order
    heldNotes,                \* ledger: sequence of held-note entries
    lastPlayedNote,           \* fallback entry, NullNote when never played
    octaveShift,
    activeKeys,               \* pressed-key set
    isMouseDown,
    currentPlayingFrequency,  \* base frequency held by the mouse, 0 for null
    majorOnTop,
    MASTER_GAIN,
    gain,                     \* tone handle -> pending level of its gain node
    timers,                   \* tone handles with a pending release timeout
    centerDisplay,            \* note and chord type the centre display shows
    events                    \* registry operations of the last handler, in order

vars == <<activeOscillators, heldNotes, lastPlayedNote, octaveShift, activeKeys,
          isMouseDown, currentPlayingFrequency, majorOnTop, MASTER_GAIN, gain, timers,
          centerDisplay, events>>

\* ----------------------------------------------------------------- helpers
Pow2(k) == IF k = 0 THEN 1 ELSE IF k = 1 THEN 2 ELSE IF k = 2 THEN 4 ELSE 8

\* frequency * Math.pow(2, shift)
Transpose(frequency, shift) ==
    IF shift >= 0 THEN frequency * Pow2(shift) ELSE frequency \div Pow2(-shift)

Abs(x) == IF x < 0 THEN -x ELSE x

RemoveAt(s, i) == [j \in 1..(Len(s) - 1) |-> IF j < i THEN s[j] ELSE s[j + 1]]

\* held-note entries: a plain string in the source is a record with source "plain"
Plain(n) == [note |-> n, source |-> "plain", type |-> "none"]

Wheel(n, t) == [note |-> n, source |-> "wheel", type |-> t]

NullNote == [note |-> "null", source |-> "none", type |-> "none"]

shiftNoteBySemitones(noteName, semitones) ==
    LET currentIndex == (CHOOSE i \in 1..Len(noteOrder) : noteOrder[i] = noteName) - 1
        newIndex == (((currentIndex + semitones) % 12) + 12) % 12
    IN  noteOrder[newIndex + 1]

\* first note whose frequency is within 0.01 Hz, "null" when none
getNoteFromFrequency(frequency) ==
    LET hits == {i \in 1..Len(noteOrder) :
                    Abs(NOTE_FREQUENCIES[noteOrder[i]] - frequency) < FreqUnit \div 100}
    IN  IF hits = {} THEN "null"
        ELSE noteOrder[CHOOSE i \in hits : \A j \in hits : i <= j]

\* findIndex comparing the entry itself with the name: a wheel entry never matches
findIndex_NoUnwrap(held, noteName) ==
    LET hits == {i \in 1..Len(held) : held[i].source = "plain" /\ held[i].note = noteName}
    IN  IF hits = {} THEN 0 ELSE CHOOSE i \in hits : \A j \in hits : i <= j

\* heldNotes.findIndex(note => name(note) === noteName), 0 for -1
findIndex(held, noteName) ==
    LET hits == {i \in 1..Len(held) : held[i].note = noteName}
    IN  IF hits = {} THEN 0 ELSE CHOOSE i \in hits : \A j \in hits : i <= j

\* registry lookups
KeyIndex(act, f) ==
    LET hits == {i \in 1..Len(act) : act[i].key = f}
    IN  IF hits = {} THEN 0 ELSE CHOOSE i \in hits : TRUE

HasKey(act, f) == KeyIndex(act, f) # 0

\* a registry with room for one voice: a new key takes the place of the last
PutVoice_Single(act, voice) ==
    IF HasKey(act, voice.key)
    THEN [act EXCEPT ![KeyIndex(act, voice.key)] = voice]
    ELSE IF act = <<>> THEN <<voice>> ELSE [act EXCEPT ![Len(act)] = voice]

\* activeOscillators[key] = voice
PutVoice(act, voice) ==
    IF HasKey(act, voice.key)
    THEN [act EXCEPT ![KeyIndex(act, voice.key)] = voice]
    ELSE Append(act, voice)

\* the engine state the core functions read and write
\* (log collects the deletions and insertions the handler makes in the registry)
Engine == [act |-> activeOscillators, held |-> heldNotes, last |-> lastPlayedNote,
           gain |-> gain, timers |-> timers, display |-> centerDisplay, log |-> <<>>]

NewOsc(e) == CHOOSE o \in 1..MaxOsc : o \notin DOMAIN e.gain /\ \A p \in 1..MaxOsc : p \notin DOMAIN e.gain => o <= p

Free(k) == Cardinality(DOMAIN gain) + k <= MaxOsc

\* ---------------------------------------------------------- core functions
\* Object.keys / Object.entries order of the registry: keys that are array
\* indices (whole numbers of Hz) ascending, then the others in insertion order.
IsIndexKey(f) == f % FreqUnit = 0

RECURSIVE SortByKey(_)
SortByKey(voices) ==
    IF voices = {} THEN <<>>
    ELSE LET m == CHOOSE v \in voices : \A w \in voices : v.key <= w.key
         IN  <<m>> \o SortByKey(voices \ {m})

ObjectEntries(act) ==
    SortByKey({act[i] : i \in {j \in 1..Len(act) : IsIndexKey(act[j].key)}})
        \o SelectSeq(act, LAMBDA v : ~IsIndexKey(v.key))

\* calculateVolume: square root in fixed point (1/1000)
Isqrt(n) == CHOOSE r \in 0..4000 : r * r <= n /\ n < (r + 1) * (r + 1)

\* calculateVolume dividing by the count in place of its square root
calculateVolume_Linear(act, masterGain) ==
    LET activeCount == Len(act)
    IN  IF activeCount = 0 THEN masterGain
        ELSE IF activeCount = 1 THEN masterGain
        ELSE LET q == masterGain \div activeCount
             IN  IF q > 50 THEN q ELSE 50

\* calculateVolume(), the registry and MASTER_GAIN being its inputs
calculateVolume(act, masterGain) ==
    LET activeCount == Len(act)
    IN  IF activeCount = 0 THEN masterGain
        ELSE IF activeCount = 1 THEN masterGain
        ELSE LET q == (masterGain * 1000) \div Isqrt(activeCount * 1000000)
             IN  IF q > 50 THEN q ELSE 50

\* mostRecent of the ledger: the entry updateCenterDisplay shows first
mostRecent(held) == IF Len(held) > 0 THEN held[Len(held)] ELSE NullNote

\* the centre display before updateCenterDisplay has run: the text of the page
Markup == [note |-> "markup", top |-> "none"]

\* the text of updateCenterDisplay with the order always taken from majorOnTop
centerText_SettingOnly(held, last, onTop) ==
    LET noteToDisplay == IF Len(held) > 0 THEN mostRecent(held)
                         ELSE IF last # NullNote THEN last ELSE NullNote
    IN  IF noteToDisplay # NullNote
        THEN [note |-> noteToDisplay.note, top |-> IF onTop THEN "major" ELSE "minor"]
        ELSE [note |-> "--", top |-> "none"]

\* the text updateCenterDisplay() writes: the note shown and the chord type on
\* top ('--' and no chord type when there is no note to display)
centerText(held, last, onTop) ==
    LET noteToDisplay == IF Len(held) > 0 THEN mostRecent(held)
                         ELSE IF last # NullNote THEN last ELSE NullNote
        showMajorOnTop == IF noteToDisplay.source = "wheel"
                          THEN noteToDisplay.type = "major"
                          ELSE onTop
    IN  IF noteToDisplay # NullNote
        THEN [note |-> noteToDisplay.note,
              top |-> IF showMajorOnTop THEN "major" ELSE "minor"]
        ELSE [note |-> "--", top |-> "none"]

\* updateCenterDisplay(), majorOnTop being onTop
updateCenterDisplay(e, onTop) ==
    [e EXCEPT !.display = centerText(e.held, e.last, onTop)]

\* stopNote taking the last entry out of the ledger, whatever its note
stopNote_Pop(e, actualFrequency) ==
    IF ~HasKey(e.act, actualFrequency) THEN e
    ELSE
        LET i == KeyIndex(e.act, actualFrequency)
            voice == e.act[i]
            stopped == [e EXCEPT
                !.act = RemoveAt(e.act, i),
                !.gain = [e.gain EXCEPT ![voice.osc] = 0],
                !.timers = e.timers \cup {voice.osc},
                !.log = Append(e.log, [op |-> "off", key |-> actualFrequency, osc |-> voice.osc]),
                !.held = IF e.held # <<>> THEN RemoveAt(e.held, Len(e.held)) ELSE e.held]
        IN  updateCenterDisplay(stopped, majorOnTop)

\* stopNote forgetting the last played note when the last held note goes
stopNote_ClearsLast(e, actualFrequency) ==
    IF ~HasKey(e.act, actualFrequency) THEN e
    ELSE
        LET i == KeyIndex(e.act, actualFrequency)
            voice == e.act[i]
            noteName == getNoteFromFrequency(voice.baseFrequency)
            index == findIndex(e.held, noteName)
            held1 == IF noteName # "null" /\ index > 0
                     THEN RemoveAt(e.held, index) ELSE e.held
            stopped == [e EXCEPT
                !.act = RemoveAt(e.act, i),
                !.gain = [e.gain EXCEPT ![voice.osc] = 0],
                !.timers = e.timers \cup {voice.osc},
                !.log = Append(e.log, [op |-> "off", key |-> actualFrequency, osc |-> voice.osc]),
                !.held = held1,
                !.last = IF held1 = <<>> THEN NullNote ELSE e.last]
        IN  IF noteName # "null" THEN updateCenterDisplay(stopped, majorOnTop) ELSE stopped

\* stopNote without the early return: the splice at index -1 takes the last
\* entry out of the ledger
stopNote_SpliceMiss(e, actualFrequency) ==
    IF ~HasKey(e.act, actualFrequency)
    THEN [e EXCEPT !.log = Append(e.log, [op |-> "miss", key |-> actualFrequency, osc |-> 0]),
                   !.held = IF e.held # <<>> THEN RemoveAt(e.held, Len(e.held)) ELSE e.held]
    ELSE
        LET i == KeyIndex(e.act, actualFrequency)
            voice == e.act[i]
            noteName == getNoteFromFrequency(voice.baseFrequency)
            index == findIndex(e.held, noteName)
            stopped == [e EXCEPT
                !.act = RemoveAt(e.act, i),
                !.gain = [e.gain EXCEPT ![voice.osc] = 0],
                !.timers = e.timers \cup {voice.osc},
                !.log = Append(e.log, [op |-> "off", key |-> actualFrequency, osc |-> voice.osc]),
                !.held = IF noteName # "null" /\ index > 0
                         THEN RemoveAt(e.held, index) ELSE e.held]
        IN  IF noteName # "null" THEN updateCenterDisplay(stopped, majorOnTop) ELSE stopped

\* stopNote that starts the fade-out and sets no timeout
stopNote_NoTimeout(e, actualFrequency) ==
    IF ~HasKey(e.act, actualFrequency)
    THEN [e EXCEPT !.log = Append(e.log, [op |-> "miss", key |-> actualFrequency, osc |-> 0])]
    ELSE
        LET i == KeyIndex(e.act, actualFrequency)
            voice == e.act[i]
            noteName == getNoteFromFrequency(voice.baseFrequency)
            index == findIndex(e.held, noteName)
            stopped == [e EXCEPT
                !.act = RemoveAt(e.act, i),
                !.gain = [e.gain EXCEPT ![voice.osc] = 0],
                !.log = Append(e.log, [op |-> "off", key |-> actualFrequency, osc |-> voice.osc]),
                !.held = IF noteName # "null" /\ index > 0
                         THEN RemoveAt(e.held, index) ELSE e.held]
        IN  IF noteName # "null" THEN updateCenterDisplay(stopped, majorOnTop) ELSE stopped

\* stopNote leaving the voice in the registry
stopNote_KeepsVoice(e, actualFrequency) ==
    IF ~HasKey(e.act, actualFrequency)
    THEN [e EXCEPT !.log = Append(e.log, [op |-> "miss", key |-> actualFrequency, osc |-> 0])]
    ELSE
        LET i == KeyIndex(e.act, actualFrequency)
            voice == e.act[i]
            noteName == getNoteFromFrequency(voice.baseFrequency)
            index == findIndex(e.held, noteName)
            stopped == [e EXCEPT
                !.gain = [e.gain EXCEPT ![voice.osc] = 0],
                !.timers = e.timers \cup {voice.osc},
                !.log = Append(e.log, [op |-> "off", key |-> actualFrequency, osc |-> voice.osc]),
                !.held = IF noteName # "null" /\ index > 0
                         THEN RemoveAt(e.held, index) ELSE e.held]
        IN  IF noteName # "null" THEN updateCenterDisplay(stopped, majorOnTop) ELSE stopped

\* stopNote(actualFrequency); the log keeps the calls that find no voice too
stopNote(e, actualFrequency) ==
    IF ~HasKey(e.act, actualFrequency)
    THEN [e EXCEPT !.log = Append(e.log, [op |-> "miss", key |-> actualFrequency, osc |-> 0])]
    ELSE
        LET i == KeyIndex(e.act, actualFrequency)
            voice == e.act[i]
            frequencyToUnhighlight ==
                IF voice.baseFrequency # 0 THEN voice.baseFrequency ELSE actualFrequency
            noteName == getNoteFromFrequency(frequencyToUnhighlight)
            index == findIndex(e.held, noteName)
            stopped == [e EXCEPT
                !.act = RemoveAt(e.act, i),
                !.gain = [e.gain EXCEPT ![voice.osc] = 0],
                !.timers = e.timers \cup {voice.osc},
                !.log = Append(e.log, [op |-> "off", key |-> actualFrequency, osc |-> voice.osc]),
                !.held = IF noteName # "null" /\ index > 0
                         THEN RemoveAt(e.held, index) ELSE e.held]
        IN  IF noteName # "null" THEN updateCenterDisplay(stopped, majorOnTop) ELSE stopped

\* engage with unshift in place of push
engage_Unshift(e, entry) ==
    LET existingIndex == findIndex(e.held, entry.note)
        held1 == IF existingIndex > 0 THEN RemoveAt(e.held, existingIndex) ELSE e.held
    IN  updateCenterDisplay([e EXCEPT !.held = <<entry>> \o held1, !.last = entry], majorOnTop)

\* heldNotes upkeep shared by playNote and playNoteFromWheel: remove the
\* existing entry of the note, push the new entry, remember it as last played
engage(e, entry) ==
    LET existingIndex == findIndex(e.held, entry.note)
        held1 == IF existingIndex > 0 THEN RemoveAt(e.held, existingIndex) ELSE e.held
    IN  updateCenterDisplay([e EXCEPT !.held = Append(held1, entry), !.last = entry], majorOnTop)

\* the oscillator and gain node a noteOn creates, ramping to OSC_GAIN
startVoice(e, voice) ==
    [e EXCEPT !.act = PutVoice(e.act, voice),
              !.log = Append(e.log, [op |-> "on", key |-> voice.key, osc |-> voice.osc]),
              !.gain = [o \in DOMAIN e.gain \cup {voice.osc} |->
                           IF o = voice.osc THEN OSC_GAIN ELSE e.gain[o]]]

\* playNote registering the voice at the base frequency, whatever the octave
playNote_Unshifted(e, frequency, applyOctaveShift, isPrimary, shift) ==
    LET actualFrequency == frequency
        e1 == IF HasKey(e.act, actualFrequency) THEN stopNote(e, actualFrequency) ELSE e
        e2 == startVoice(e1, [key |-> actualFrequency, osc |-> NewOsc(e1),
                              baseFrequency |-> frequency, isPrimary |-> isPrimary,
                              chordType |-> "none"])
        noteName == getNoteFromFrequency(frequency)
    IN  IF noteName # "null" THEN engage(e2, Plain(noteName)) ELSE e2

\* playNote(frequency, applyOctaveShift, isPrimary), octaveShift being shift
playNote(e, frequency, applyOctaveShift, isPrimary, shift) ==
    LET actualFrequency == IF applyOctaveShift THEN Transpose(frequency, shift) ELSE frequency
        e1 == IF HasKey(e.act, actualFrequency) THEN stopNote(e, actualFrequency) ELSE e
        e2 == startVoice(e1, [key |-> actualFrequency, osc |-> NewOsc(e1),
                              baseFrequency |-> frequency, isPrimary |-> isPrimary,
                              chordType |-> "none"])
        noteName == getNoteFromFrequency(frequency)
    IN  IF noteName # "null" THEN engage(e2, Plain(noteName)) ELSE e2

\* playNoteFromWheel without the stop of the existing voice
playNoteFromWheel_NoStop(e, frequency, noteName, type, shift) ==
    LET actualFrequency == Transpose(frequency, shift)
        e2 == startVoice(e, [key |-> actualFrequency, osc |-> NewOsc(e),
                             baseFrequency |-> frequency, isPrimary |-> TRUE,
                             chordType |-> type])
    IN  engage(e2, Wheel(noteName, type))

\* playNoteFromWheel taking the chord type from the majorOnTop setting
playNoteFromWheel_Derived(e, frequency, noteName, type, shift) ==
    LET actualFrequency == Transpose(frequency, shift)
        derived == IF majorOnTop THEN "major" ELSE "minor"
        e1 == IF HasKey(e.act, actualFrequency) THEN stopNote(e, actualFrequency) ELSE e
        e2 == startVoice(e1, [key |-> actualFrequency, osc |-> NewOsc(e1),
                              baseFrequency |-> frequency, isPrimary |-> TRUE,
                              chordType |-> derived])
    IN  engage(e2, Wheel(noteName, derived))

\* playNoteFromWheel(frequency, noteName, type)
playNoteFromWheel(e, frequency, noteName, type, shift) ==
    LET actualFrequency == Transpose(frequency, shift)
        e1 == IF HasKey(e.act, actualFrequency) THEN stopNote(e, actualFrequency) ELSE e
        e2 == startVoice(e1, [key |-> actualFrequency, osc |-> NewOsc(e1),
                              baseFrequency |-> frequency, isPrimary |-> TRUE,
                              chordType |-> type])
    IN  engage(e2, Wheel(noteName, type))

\* a loop that skips the key after each one it stops
RECURSIVE stopAll_SkipsNext(_, _)
stopAll_SkipsNext(e, keys) ==
    IF keys = <<>> THEN e
    ELSE stopAll_SkipsNext(stopNote(e, Head(keys)),
                           IF Len(keys) > 1 THEN Tail(Tail(keys)) ELSE <<>>)

RECURSIVE stopAll(_, _)
stopAll(e, keys) ==
    IF keys = <<>> THEN e ELSE stopAll(stopNote(e, Head(keys)), Tail(keys))

\* the restart loop of shiftActiveNotes
RECURSIVE restartNotes(_, _, _)
restartNotes(e, activeNotes, shift) ==
    IF activeNotes = <<>> THEN e
    ELSE
        LET note == Head(activeNotes)
            noteName == getNoteFromFrequency(note.baseFrequency)
            wheelHits == {i \in 1..Len(e.held) :
                             e.held[i].note = noteName /\ e.held[i].source = "wheel"}
            isFromWheel == wheelHits # {}
            heldNote == e.held[CHOOSE i \in wheelHits : \A j \in wheelHits : i <= j]
            e1 == IF noteName = "null" THEN e
                  ELSE IF isFromWheel
                       THEN playNoteFromWheel(e, note.baseFrequency, noteName, heldNote.type, shift)
                       ELSE playNote(e, note.baseFrequency, TRUE, TRUE, shift)
        IN  restartNotes(e1, Tail(activeNotes), shift)

\* shiftActiveNotes(oldOctaveShift, newOctaveShift); octaveShift is already
\* newOctaveShift when it runs
shiftActiveNotes(e, newOctaveShift) ==
    LET activeNotes == ObjectEntries(e.act)
        e1 == stopAll(e, [i \in 1..Len(activeNotes) |-> activeNotes[i].key])
    IN  restartNotes(e1, activeNotes, newOctaveShift)

\* the handlers passing playNote's default isPrimary = true
derivePrimary_Default(frequency, onTop) == TRUE

\* primary status of a plain note, as the keyboard and piano handlers derive it
derivePrimary(frequency, onTop) ==
    LET noteName == getNoteFromFrequency(frequency)
        majorCounterpart == shiftNoteBySemitones(noteName, 3)
        minorCounterpart == shiftNoteBySemitones(noteName, -3)
        isMajorChordCenter == minorCounterpart \in DOMAIN NOTE_FREQUENCIES
    IN  IF noteName = "null" THEN TRUE
        ELSE IF majorCounterpart \in DOMAIN NOTE_FREQUENCIES
                \/ minorCounterpart \in DOMAIN NOTE_FREQUENCIES
             THEN (IF onTop THEN isMajorChordCenter ELSE ~isMajorChordCenter)
             ELSE TRUE

\* updateActiveNotesHighlighting: the chord type of the note's wheel segments
\* and labels that gets the primary highlighting
primaryType(voice, onTop) ==
    IF voice.chordType # "none" THEN voice.chordType
    ELSE IF derivePrimary(voice.baseFrequency, onTop) THEN "major" ELSE "minor"

\* the mouse handlers leaving the note the mouse holds sounding
releaseMouseNote_Keeps(e, frequency, shift) == e

\* the mouse handlers stop the note the mouse holds before playing another
releaseMouseNote(e, frequency, shift) ==
    IF currentPlayingFrequency # 0 /\ currentPlayingFrequency # frequency
    THEN stopNote(e, Transpose(currentPlayingFrequency, shift))
    ELSE e

Commit(e) ==
    /\ activeOscillators' = e.act
    /\ heldNotes' = e.held
    /\ lastPlayedNote' = e.last
    /\ gain' = e.gain
    /\ timers' = e.timers
    /\ centerDisplay' = e.display
    /\ events' = e.log

\* ------------------------------------------------------------------- init
\* the settings loadSettings returns when nothing is saved
settingsDefault == [majorOnTop |-> FALSE, volume |-> 700]

Init ==
    /\ activeOscillators = <<>>
    /\ heldNotes = <<>>
    /\ lastPlayedNote = NullNote
    /\ octaveShift = 0
    /\ activeKeys = {}
    /\ isMouseDown = FALSE
    /\ currentPlayingFrequency = 0
    /\ majorOnTop = settingsDefault.majorOnTop
    /\ MASTER_GAIN = settingsDefault.volume
    /\ gain = [o \in {} |-> 0]
    /\ timers = {}
    /\ centerDisplay = Markup
    /\ events = <<>>

\* ---------------------------------------------------------------- handlers
\* the notes restarted before octaveShift is updated
applyOctave_StaleShift(newShift) ==
    /\ Free(Len(activeOscillators))
    /\ octaveShift' = newShift
    /\ Commit(shiftActiveNotes(Engine, octaveShift))

\* the octave change shared by the z/x keys and the octave buttons
applyOctave(newShift) ==
    /\ Free(Len(activeOscillators))
    /\ octaveShift' = newShift
    /\ Commit(shiftActiveNotes(Engine, newShift))

\* wheel path: mousedown
WheelMouseDown(n, type) ==
    LET frequency == NOTE_FREQUENCIES[n]
        e1 == releaseMouseNote(Engine, frequency, octaveShift)
    IN  /\ Free(1)
        /\ isMouseDown' = TRUE
        /\ currentPlayingFrequency' = frequency
        /\ Commit(playNoteFromWheel(e1, frequency, n, type, octaveShift))
        /\ UNCHANGED <<octaveShift, activeKeys, majorOnTop, MASTER_GAIN>>

\* wheel path: mouseenter
WheelMouseEnter(n, type) ==
    LET frequency == NOTE_FREQUENCIES[n]
        e1 == releaseMouseNote(Engine, frequency, octaveShift)
    IN  /\ isMouseDown
        /\ Free(1)
        /\ currentPlayingFrequency' = frequency
        /\ Commit(playNoteFromWheel(e1, frequency, n, type, octaveShift))
        /\ UNCHANGED <<octaveShift, activeKeys, isMouseDown, majorOnTop, MASTER_GAIN>>

\* wheel path: touchstart
WheelTouchStart(n, type) ==
    /\ Free(1)
    /\ Commit(playNoteFromWheel(Engine, NOTE_FREQUENCIES[n], n, type, octaveShift))
    /\ UNCHANGED <<octaveShift, activeKeys, isMouseDown, currentPlayingFrequency,
                   majorOnTop, MASTER_GAIN>>

\* wheel and piano path: touchend
TouchEnd(n) ==
    /\ Commit(stopNote(Engine, Transpose(NOTE_FREQUENCIES[n], octaveShift)))
    /\ UNCHANGED <<octaveShift, activeKeys, isMouseDown, currentPlayingFrequency,
                   majorOnTop, MASTER_GAIN>>

\* document mouseup
MouseUp ==
    /\ isMouseDown' = FALSE
    /\ currentPlayingFrequency' = 0
    /\ Commit(IF currentPlayingFrequency # 0
              THEN stopNote(Engine, Transpose(currentPlayingFrequency, octaveShift))
              ELSE Engine)
    /\ UNCHANGED <<octaveShift, activeKeys, majorOnTop, MASTER_GAIN>>

\* keydown with the bounds of the octave keys off by one
KeyDown_OffByOne(key) ==
    IF key = "z" /\ octaveShift >= MIN_OCTAVE_SHIFT
    THEN /\ applyOctave(octaveShift - 1)
         /\ UNCHANGED <<activeKeys, isMouseDown, currentPlayingFrequency, majorOnTop, MASTER_GAIN>>
    ELSE IF key = "x" /\ octaveShift <= MAX_OCTAVE_SHIFT
    THEN /\ applyOctave(octaveShift + 1)
         /\ UNCHANGED <<activeKeys, isMouseDown, currentPlayingFrequency, majorOnTop, MASTER_GAIN>>
    ELSE IF key \in DOMAIN keyboardMap /\ key \notin activeKeys
    THEN /\ Free(1)
         /\ activeKeys' = activeKeys \cup {key}
         /\ Commit(playNote(Engine, keyboardMap[key], TRUE,
                            derivePrimary(keyboardMap[key], majorOnTop), octaveShift))
         /\ UNCHANGED <<octaveShift, isMouseDown, currentPlayingFrequency, majorOnTop, MASTER_GAIN>>
    ELSE Commit(Engine) /\ UNCHANGED <<octaveShift, activeKeys, isMouseDown, currentPlayingFrequency, majorOnTop, MASTER_GAIN>>

\* keydown without the test for a key that is already pressed
KeyDown_Repeats(key) ==
    IF key = "z" /\ octaveShift > MIN_OCTAVE_SHIFT
    THEN /\ applyOctave(octaveShift - 1)
         /\ UNCHANGED <<activeKeys, isMouseDown, currentPlayingFrequency, majorOnTop, MASTER_GAIN>>
    ELSE IF key = "x" /\ octaveShift < MAX_OCTAVE_SHIFT
    THEN /\ applyOctave(octaveShift + 1)
         /\ UNCHANGED <<activeKeys, isMouseDown, currentPlayingFrequency, majorOnTop, MASTER_GAIN>>
    ELSE IF key \in DOMAIN keyboardMap
    THEN /\ Free(1)
         /\ activeKeys' = activeKeys \cup {key}
         /\ Commit(playNote(Engine, keyboardMap[key], TRUE,
                            derivePrimary(keyboardMap[key], majorOnTop), octaveShift))
         /\ UNCHANGED <<octaveShift, isMouseDown, currentPlayingFrequency, majorOnTop, MASTER_GAIN>>
    ELSE Commit(Engine) /\ UNCHANGED <<octaveShift, activeKeys, isMouseDown, currentPlayingFrequency, majorOnTop, MASTER_GAIN>>

\* document keydown: the octave keys z and x, then the note keys
KeyDown(key) ==
    IF key = "z" /\ octaveShift > MIN_OCTAVE_SHIFT
    THEN /\ applyOctave(octaveShift - 1)
         /\ UNCHANGED <<activeKeys, isMouseDown, currentPlayingFrequency, majorOnTop, MASTER_GAIN>>
    ELSE IF key = "x" /\ octaveShift < MAX_OCTAVE_SHIFT
    THEN /\ applyOctave(octaveShift + 1)
         /\ UNCHANGED <<activeKeys, isMouseDown, currentPlayingFrequency, majorOnTop, MASTER_GAIN>>
    ELSE IF key \in DOMAIN keyboardMap /\ key \notin activeKeys
    THEN /\ Free(1)
         /\ activeKeys' = activeKeys \cup {key}
         /\ Commit(playNote(Engine, keyboardMap[key], TRUE,
                            derivePrimary(keyboardMap[key], majorOnTop), octaveShift))
         /\ UNCHANGED <<octaveShift, isMouseDown, currentPlayingFrequency, majorOnTop, MASTER_GAIN>>
    ELSE Commit(Engine) /\ UNCHANGED <<octaveShift, activeKeys, isMouseDown, currentPlayingFrequency, majorOnTop, MASTER_GAIN>>

\* document keyup
KeyUp(key) ==
    IF key \in DOMAIN keyboardMap /\ key \in activeKeys
    THEN /\ activeKeys' = activeKeys \ {key}
         /\ Commit(stopNote(Engine, Transpose(keyboardMap[key], octaveShift)))
         /\ UNCHANGED <<octaveShift, isMouseDown, currentPlayingFrequency, majorOnTop, MASTER_GAIN>>
    ELSE Commit(Engine) /\ UNCHANGED <<octaveShift, activeKeys, isMouseDown, currentPlayingFrequency, majorOnTop, MASTER_GAIN>>

\* blur clearing the ledger and the pressed keys without stopping the voices
Blur_LedgerOnly ==
    /\ isMouseDown' = FALSE
    /\ currentPlayingFrequency' = 0
    /\ activeKeys' = {}
    /\ Commit(updateCenterDisplay([Engine EXCEPT !.held = <<>>], majorOnTop))
    /\ UNCHANGED <<octaveShift, majorOnTop, MASTER_GAIN>>

\* window blur: all notes off
Blur ==
    LET keys == ObjectEntries(activeOscillators)
    IN  /\ isMouseDown' = FALSE
        /\ currentPlayingFrequency' = 0
        /\ activeKeys' = {}
        /\ Commit(updateCenterDisplay(stopAll([Engine EXCEPT !.held = <<>>],
                                              [i \in 1..Len(keys) |-> keys[i].key]),
                                      majorOnTop))
        /\ UNCHANGED <<octaveShift, majorOnTop, MASTER_GAIN>>

\* piano path: mousedown
PianoMouseDown(n) ==
    LET frequency == NOTE_FREQUENCIES[n]
        e1 == releaseMouseNote(Engine, frequency, octaveShift)
    IN  /\ Free(1)
        /\ isMouseDown' = TRUE
        /\ currentPlayingFrequency' = frequency
        /\ Commit(playNote(e1, frequency, TRUE, derivePrimary(frequency, majorOnTop), octaveShift))
        /\ UNCHANGED <<octaveShift, activeKeys, majorOnTop, MASTER_GAIN>>

\* piano path: mouseenter
PianoMouseEnter(n) ==
    LET frequency == NOTE_FREQUENCIES[n]
        e1 == releaseMouseNote(Engine, frequency, octaveShift)
    IN  /\ isMouseDown
        /\ Free(1)
        /\ currentPlayingFrequency' = frequency
        /\ Commit(playNote(e1, frequency, TRUE, derivePrimary(frequency, majorOnTop), octaveShift))
        /\ UNCHANGED <<octaveShift, activeKeys, isMouseDown, majorOnTop, MASTER_GAIN>>

\* piano path: touchstart
PianoTouchStart(n) ==
    LET frequency == NOTE_FREQUENCIES[n]
    IN  /\ Free(1)
        /\ Commit(playNote(Engine, frequency, TRUE, derivePrimary(frequency, majorOnTop), octaveShift))
        /\ UNCHANGED <<octaveShift, activeKeys, isMouseDown, currentPlayingFrequency,
                       majorOnTop, MASTER_GAIN>>

\* options panel: major-on-top checkbox
MajorOnTopChange(checked) ==
    /\ majorOnTop' = checked
    /\ centerDisplay' = updateCenterDisplay(Engine, checked).display
    /\ events' = <<>>
    /\ UNCHANGED <<activeOscillators, heldNotes, lastPlayedNote, octaveShift, activeKeys,
                   isMouseDown, currentPlayingFrequency, MASTER_GAIN, gain, timers>>

\* options panel: volume slider
VolumeInput(value) ==
    /\ MASTER_GAIN' = value
    /\ events' = <<>>
    /\ UNCHANGED <<activeOscillators, heldNotes, lastPlayedNote, octaveShift, activeKeys,
                   isMouseDown, currentPlayingFrequency, majorOnTop, gain, timers,
                   centerDisplay>>

\* octave buttons
OctaveDownClick ==
    IF octaveShift > MIN_OCTAVE_SHIFT
    THEN /\ applyOctave(octaveShift - 1)
         /\ UNCHANGED <<activeKeys, isMouseDown, currentPlayingFrequency, majorOnTop, MASTER_GAIN>>
    ELSE Commit(Engine) /\ UNCHANGED <<octaveShift, activeKeys, isMouseDown, currentPlayingFrequency, majorOnTop, MASTER_GAIN>>

\* the octave-up button without its bound
OctaveUpClick_NoBound ==
    /\ applyOctave(octaveShift + 1)
    /\ UNCHANGED <<activeKeys, isMouseDown, currentPlayingFrequency, majorOnTop, MASTER_GAIN>>

OctaveUpClick ==
    IF octaveShift < MAX_OCTAVE_SHIFT
    THEN /\ applyOctave(octaveShift + 1)
         /\ UNCHANGED <<activeKeys, isMouseDown, currentPlayingFrequency, majorOnTop, MASTER_GAIN>>
    ELSE Commit(Engine) /\ UNCHANGED <<octaveShift, activeKeys, isMouseDown, currentPlayingFrequency, majorOnTop, MASTER_GAIN>>

OctaveDisplayClick ==
    /\ applyOctave(0)
    /\ UNCHANGED <<activeKeys, isMouseDown, currentPlayingFrequency, majorOnTop, MASTER_GAIN>>

\* a release callback that also deletes the first voice of the registry
ReleaseTimer_DeletesVoice(o) ==
    /\ o \in timers
    /\ timers' = timers \ {o}
    /\ gain' = [p \in DOMAIN gain \ {o} |-> gain[p]]
    /\ events' = <<>>
    /\ activeOscillators' = IF activeOscillators = <<>> THEN activeOscillators
                            ELSE Tail(activeOscillators)
    /\ UNCHANGED <<heldNotes, lastPlayedNote, octaveShift, activeKeys,
                   isMouseDown, currentPlayingFrequency, majorOnTop, MASTER_GAIN,
                   centerDisplay>>

\* a release callback that looks the voice up in the registry when it fires
\* and releases the handle it finds there
ReleaseTimer_ByLookup(o) ==
    LET found == IF activeOscillators = <<>> THEN {}
                 ELSE {activeOscillators[Len(activeOscillators)].osc}
    IN  /\ o \in timers
        /\ timers' = timers \ {o}
        /\ gain' = [p \in DOMAIN gain \ ({o} \cup found) |-> gain[p]]
        /\ events' = <<>>
        /\ UNCHANGED <<activeOscillators, heldNotes, lastPlayedNote, octaveShift, activeKeys,
                       isMouseDown, currentPlayingFrequency, majorOnTop, MASTER_GAIN,
                       centerDisplay>>

\* the timeout stopNote sets: stop and disconnect the oscillator and its gain node
ReleaseTimer(o) ==
    /\ o \in timers
    /\ timers' = timers \ {o}
    /\ gain' = [p \in DOMAIN gain \ {o} |-> gain[p]]
    /\ events' = <<>>
    /\ UNCHANGED <<activeOscillators, heldNotes, lastPlayedNote, octaveShift, activeKeys,
                   isMouseDown, currentPlayingFrequency, majorOnTop, MASTER_GAIN,
                   centerDisplay>>

\* keyboard and touch input, the octave controls, focus loss, release timers
Next ==
    \/ \E n \in Played, type \in ChordTypes : WheelTouchStart(n, type)
    \/ \E n \in Played : PianoTouchStart(n)
    \/ \E n \in Played : TouchEnd(n)
    \/ \E key \in PlayedKeys \cup {"z", "x"} : KeyDown(key)
    \/ \E key \in PlayedKeys : KeyUp(key)
    \/ Blur
    \/ OctaveDownClick
    \/ OctaveUpClick
    \/ OctaveDisplayClick
    \/ \E o \in 1..MaxOsc : ReleaseTimer(o)

Spec == Init /\ [][Next]_vars

\* every way a voice leaves the registry (touchend, re-trigger, octave
\* buttons, blur) on wheel touches, every timeout that is set firing in the end
NextLive ==
    \/ \E n \in Played, type \in ChordTypes : WheelTouchStart(n, type)
    \/ \E n \in Played : TouchEnd(n)
    \/ Blur
    \/ OctaveDownClick
    \/ OctaveUpClick
    \/ \E o \in 1..MaxOsc : ReleaseTimer(o)

SpecLive == Init /\ [][NextLive]_vars /\ \A o \in 1..MaxOsc : WF_vars(ReleaseTimer(o))

\* the same with the mouse handlers of the wheel and the piano
NextMouse ==
    \/ Next
    \/ \E n \in Played, type \in ChordTypes : WheelMouseDown(n, type)
    \/ \E n \in Played, type \in ChordTypes : WheelMouseEnter(n, type)
    \/ \E n \in Played : PianoMouseDown(n)
    \/ \E n \in Played : PianoMouseEnter(n)
    \/ MouseUp

SpecMouse == Init /\ [][NextMouse]_vars

\* touch input at a fixed octave: the piano on three pitch classes, the wheel
\* on two of them
NextTouch ==
    \/ \E n \in Played, type \in ChordTypes : WheelTouchStart(n, type)
    \/ \E n \in PlayedTouch : PianoTouchStart(n)
    \/ \E n \in PlayedTouch : TouchEnd(n)
    \/ Blur
    \/ \E o \in 1..MaxOsc : ReleaseTimer(o)

SpecTouch == Init /\ [][NextTouch]_vars

\* ------------------------------------------------ volume specification
\* the positions of the volume slider, in hundredths
SliderMax == 100

VolumeSteps == {10 * k : k \in 0..SliderMax}

\* the state after piano touches on the first k notes of noteOrder, in that
\* order, at octave 0 with the default settings
InitVolume ==
    \E k \in 0..Len(noteOrder) :
        /\ activeOscillators =
               [i \in 1..k |-> [key |-> NOTE_FREQUENCIES[noteOrder[i]], osc |-> i,
                                baseFrequency |-> NOTE_FREQUENCIES[noteOrder[i]],
                                isPrimary |-> derivePrimary(NOTE_FREQUENCIES[noteOrder[i]],
                                                            settingsDefault.majorOnTop),
                                chordType |-> "none"]]
        /\ heldNotes = [i \in 1..k |-> Plain(noteOrder[i])]
        /\ lastPlayedNote = IF k = 0 THEN NullNote ELSE Plain(noteOrder[k])
        /\ gain = [o \in 1..k |-> OSC_GAIN]
        /\ octaveShift = 0
        /\ activeKeys = {}
        /\ isMouseDown = FALSE
        /\ currentPlayingFrequency = 0
        /\ majorOnTop = settingsDefault.majorOnTop
        /\ MASTER_GAIN = settingsDefault.volume
        /\ timers = {}
        /\ centerDisplay = (IF k = 0 THEN Markup
                            ELSE centerText(heldNotes, lastPlayedNote, settingsDefault.majorOnTop))
        /\ events = <<>>

\* the volume slider moved while 0 to 12 notes sound
NextVolume == \E value \in VolumeSteps : VolumeInput(value)

SpecVolume == InitVolume /\ [][NextVolume]_vars

\* ------------------------------------------------ note-on specification
\* the pitch classes of the note-on specification: two with a fractional
\* number of Hz, two with a whole number
PlayedMany == {"C", "E", "G", "A"}

\* nothing played yet, the octave buttons pressed any number of times
InitNoteOn ==
    /\ activeOscillators = <<>>
    /\ heldNotes = <<>>
    /\ lastPlayedNote = NullNote
    /\ octaveShift \in MIN_OCTAVE_SHIFT..MAX_OCTAVE_SHIFT
    /\ activeKeys = {}
    /\ isMouseDown = FALSE
    /\ currentPlayingFrequency = 0
    /\ majorOnTop = settingsDefault.majorOnTop
    /\ MASTER_GAIN = settingsDefault.volume
    /\ gain = [o \in {} |-> 0]
    /\ timers = {}
    /\ centerDisplay = Markup
    /\ events = <<>>

\* touch note-ons without any noteOff (the piano on four pitch classes, the
\* wheel on two of them), at the octave shift it starts with
NextNoteOn ==
    \/ \E n \in Played, type \in ChordTypes : WheelTouchStart(n, type)
    \/ \E n \in PlayedMany : PianoTouchStart(n)
    \/ \E o \in 1..MaxOsc : ReleaseTimer(o)

SpecNoteOn == InitNoteOn /\ [][NextNoteOn]_vars

\* ------------------------------------------------ settings specification
\* the pitch classes and note keys of the settings specification
PlayedSettings == {"C", "E"}

KeysSettings == {"d"}

\* plain notes from the keyboard, the piano (mouse and touch), wheel touches,
\* the major-on-top checkbox, release timers, at a fixed octave
NextSettings ==
    \/ \E checked \in BOOLEAN : MajorOnTopChange(checked)
    \/ \E key \in KeysSettings : KeyDown(key)
    \/ \E key \in KeysSettings : KeyUp(key)
    \/ \E n \in PlayedSettings : PianoMouseDown(n)
    \/ \E n \in PlayedSettings : PianoMouseEnter(n)
    \/ MouseUp
    \/ \E n \in PlayedSettings : PianoTouchStart(n)
    \/ \E n \in PlayedSettings, type \in ChordTypes : WheelTouchStart(n, type)
    \/ \E n \in PlayedSettings : TouchEnd(n)
    \/ \E o \in 1..MaxOsc : ReleaseTimer(o)

SpecSettings == Init /\ [][NextSettings]_vars

\* ------------------------------------------------------- property helpers
Voices(act) == {act[i] : i \in 1..Len(act)}

Handles(act) == {v.osc : v \in Voices(act)}

BaseFrequencies(act) == {v.baseFrequency : v \in Voices(act)}

\* the keys registered after the first k registry operations of the step
RECURSIVE KeysAfter(_, _, _)
KeysAfter(keys, log, k) ==
    IF k = 0 THEN keys
    ELSE LET prev == KeysAfter(keys, log, k - 1)
         IN  IF log[k].op = "on" THEN prev \cup {log[k].key} ELSE prev \ {log[k].key}

\* the last handler stopped the voice at some key and registered a new one there
Retriggered ==
    \E i \in 1..(Len(events) - 1) :
        /\ events[i].op = "off" /\ events[i + 1].op = "on"
        /\ events[i].key = events[i + 1].key

\* the ledger without the entry of note n
Others(held, n) == SelectSeq(held, LAMBDA h : h.note # n)

EntryOf(held, n) == held[findIndex(held, n)]

\* a request of the octave controls that the handlers accept
ShiftAccepted ==
    \/ octaveShift > MIN_OCTAVE_SHIFT /\ (OctaveDownClick \/ KeyDown("z"))
    \/ octaveShift < MAX_OCTAVE_SHIFT /\ (OctaveUpClick \/ KeyDown("x"))
    \/ OctaveDisplayClick

\* a request of the octave controls that would leave [-3, 3]
ShiftRejected ==
    \/ octaveShift = MIN_OCTAVE_SHIFT /\ (OctaveDownClick \/ KeyDown("z"))
    \/ octaveShift = MAX_OCTAVE_SHIFT /\ (OctaveUpClick \/ KeyDown("x"))

\* ------------------------------------------------------------------ claims

\* C1: a noteOn at a frequency f that is registered is preceded, in the same
\* handler, by the removal of the voice at f: every insertion into the
\* registry happens at a key that is not registered at that moment; the handle
\* of the voice registered afterwards at f is created by this step (it is no
\* handle that existed before), it is not scheduled for release and ramps to
\* OSC_GAIN, while the handle that was registered at f before is fading to 0
\* with its release timer pending; f holds exactly one voice.
C1_RetriggerStopsFirst ==
    [][\A i \in 1..Len(events') :
           events'[i].op = "on" =>
               LET f == events'[i].key
                   keys == {v.key : v \in Voices(activeOscillators)}
                   now == {v \in Voices(activeOscillators') : v.key = f}
                   old == {v \in Voices(activeOscillators) : v.key = f}
               IN  /\ f \notin KeysAfter(keys, events', i - 1)
                   /\ Cardinality({j \in 1..Len(activeOscillators') :
                                      activeOscillators'[j].key = f}) = 1
                   /\ \A v \in now :
                          /\ v.osc \notin DOMAIN gain
                          /\ v.osc \notin timers'
                          /\ gain'[v.osc] = OSC_GAIN
                          /\ \A w \in old :
                                 /\ w.osc # v.osc
                                 /\ w.osc \in timers'
                                 /\ gain'[w.osc] = 0]_vars

\* a wheel noteOn has just replaced the voice registered at its frequency
C1_Witness ==
    /\ Len(events) = 2
    /\ Retriggered
    /\ events[1].osc # events[2].osc
    /\ events[1].osc \in timers
    /\ \E v \in Voices(activeOscillators) :
           v.key = events[2].key /\ v.osc = events[2].osc /\ v.chordType \in ChordTypes

\* C2: an accepted octave shift keeps the provenance of every sounding note:
\* a wheel voice of chord type t is a wheel voice of chord type t afterwards
\* and its ledger entry is Wheel(pitch class, t); a plain voice stays plain.
C2_ShiftKeepsProvenance ==
    [][ShiftAccepted =>
           \A v \in Voices(activeOscillators) :
               LET n == getNoteFromFrequency(v.baseFrequency)
               IN  /\ \E w \in Voices(activeOscillators') :
                          w.baseFrequency = v.baseFrequency /\ w.chordType = v.chordType
                   /\ findIndex(heldNotes', n) > 0
                   /\ EntryOf(heldNotes', n) =
                          (IF v.chordType = "none" THEN Plain(n) ELSE Wheel(n, v.chordType))]_vars

\* C3: after every step that changes the number of live voices, each live
\* voice has its gain ramping to the target loudness calculateVolume gives.
C3_RampedToTarget ==
    [][Len(activeOscillators') # Len(activeOscillators) =>
           \A v \in Voices(activeOscillators') :
               gain'[v.osc] = calculateVolume(activeOscillators', MASTER_GAIN')]_vars

\* C4: an accepted octave shift (down, up, reset) keeps the base frequencies
\* of the live voices and their number, removes every voice that was
\* registered (a noteOff per voice, its handle fading with its release timer
\* pending) and leaves every live voice at baseFrequency * 2^(new shift).
C4_ShiftTransposes ==
    [][ShiftAccepted =>
           /\ BaseFrequencies(activeOscillators') = BaseFrequencies(activeOscillators)
           /\ Len(activeOscillators') = Len(activeOscillators)
           /\ \A v \in Voices(activeOscillators) :
                  /\ \E i \in 1..Len(events') :
                         events'[i] = [op |-> "off", key |-> v.key, osc |-> v.osc]
                  /\ v.osc \in timers'
                  /\ v.osc \notin Handles(activeOscillators')
           /\ \A w \in Voices(activeOscillators') :
                  w.key = Transpose(w.baseFrequency, octaveShift')]_vars

\* two voices have just been moved to another octave
C4_Witness ==
    /\ Len(activeOscillators) = 2
    /\ Len(events) = 4
    /\ events[1].op = "off" /\ events[2].op = "off"
    /\ events[3].op = "on" /\ events[4].op = "on"
    /\ events[1].key # events[3].key
    /\ octaveShift # 0

\* C5: the octave shift is an integer in [-3, 3] in every reachable state.
C5_OctaveInRange ==
    octaveShift \in MIN_OCTAVE_SHIFT..MAX_OCTAVE_SHIFT

\* the lowest octave, reached with a live voice
C5_Witness ==
    /\ octaveShift = MIN_OCTAVE_SHIFT
    /\ activeOscillators # <<>>

\* C6: a request of the octave controls that would leave [-3, 3] changes
\* nothing: octave shift, registry, ledger, last-played fallback, gains and
\* release timers are as before, and no registry operation is made.
C6_RejectedShiftNoOp ==
    [][ShiftRejected =>
           /\ UNCHANGED <<octaveShift, activeOscillators, heldNotes, lastPlayedNote,
                          gain, timers, activeKeys>>
           /\ events' = <<>>]_vars

\* the highest octave with a held note, the last handler having changed nothing
C6_Witness ==
    /\ octaveShift = MAX_OCTAVE_SHIFT
    /\ activeOscillators # <<>>
    /\ heldNotes # <<>>
    /\ events = <<>>

\* C7: window blur leaves no live voice, an empty ledger and an empty
\* pressed-key set, whatever was live; every voice that was live is removed by
\* a noteOff and its handle fades to 0 with its release timer pending.
C7_BlurStopsAll ==
    [][Blur =>
           /\ activeOscillators' = <<>>
           /\ heldNotes' = <<>>
           /\ activeKeys' = {}
           /\ \A v \in Voices(activeOscillators) :
                  /\ \E i \in 1..Len(events') :
                         events'[i] = [op |-> "off", key |-> v.key, osc |-> v.osc]
                  /\ v.osc \in timers'
                  /\ gain'[v.osc] = 0]_vars

\* the last handler stopped two voices and started none
C7_Witness ==
    /\ Len(events) = 2
    /\ \A i \in 1..Len(events) : events[i].op = "off"
    /\ activeOscillators = <<>>
    /\ heldNotes = <<>>
    /\ activeKeys = {}

\* C8: blur and the noteOff handlers (touchend, keyup; for a registered
\* frequency or not) leave the last-played fallback as it was: a step that
\* changes the fallback is none of them; and no step makes a fallback that is
\* set null again.
C8_FallbackKept ==
    [][/\ lastPlayedNote' # lastPlayedNote =>
              ~(Blur \/ (\E n \in NoteNames : TouchEnd(n))
                     \/ (\E key \in DOMAIN keyboardMap : KeyUp(key)))
       /\ lastPlayedNote # NullNote => lastPlayedNote' # NullNote]_vars

\* nothing is held after a handler that stopped voices, and the fallback is set
C8_Witness ==
    /\ events # <<>>
    /\ \A i \in 1..Len(events) : events[i].op = "off"
    /\ activeOscillators = <<>>
    /\ heldNotes = <<>>
    /\ lastPlayedNote # NullNote

\* C9: the held-notes ledger never holds two entries of one pitch class.
C9_OneEntryPerPitchClass ==
    \A i, j \in 1..Len(heldNotes) : heldNotes[i].note = heldNotes[j].note => i = j

\* a note that was held is engaged again while another note is held
C9_Witness ==
    /\ Len(heldNotes) = 2
    /\ Len(events) = 2
    /\ Retriggered
    /\ heldNotes[2].source = "wheel"

\* C10: after a noteOn for pitch class n (piano touch: plain, wheel touch:
\* wheel with the touched chord type) the tail of the ledger is the entry of
\* this noteOn, the last-played fallback is the same entry, and the other
\* entries are in the order they were in.
C10_EngageAtTail ==
    [][/\ \A n \in PlayedTouch :
              PianoTouchStart(n) =>
                  /\ heldNotes' # <<>>
                  /\ heldNotes'[Len(heldNotes')] = Plain(n)
                  /\ lastPlayedNote' = Plain(n)
                  /\ Others(heldNotes', n) = Others(heldNotes, n)
                  /\ Len(heldNotes') = Len(Others(heldNotes, n)) + 1
       /\ \A n \in Played, type \in ChordTypes :
              WheelTouchStart(n, type) =>
                  /\ heldNotes' # <<>>
                  /\ heldNotes'[Len(heldNotes')] = Wheel(n, type)
                  /\ lastPlayedNote' = Wheel(n, type)
                  /\ Others(heldNotes', n) = Others(heldNotes, n)
                  /\ Len(heldNotes') = Len(Others(heldNotes, n)) + 1]_vars

\* the first of three held notes is engaged again from the wheel
C10_Witness ==
    /\ Len(heldNotes) = 3
    /\ Len(events) = 2
    /\ Retriggered
    /\ heldNotes[3].source = "wheel"
    /\ lastPlayedNote = heldNotes[3]
    /\ getNoteFromFrequency(activeOscillators[3].baseFrequency) = heldNotes[3].note

\* C11: a noteOff (touchend) for a live voice of pitch class n takes the entry
\* of n out of the ledger and nothing else: the ledger afterwards is the ledger
\* before without the entry of n, one entry shorter, and its most recent entry
\* is the last of the entries that remain, or null when none remains.
C11_ReleaseRemovesOne ==
    [][\A n \in PlayedTouch :
           (HasKey(activeOscillators, Transpose(NOTE_FREQUENCIES[n], octaveShift))
                /\ TouchEnd(n)) =>
               /\ findIndex(heldNotes, n) > 0
               /\ findIndex(heldNotes', n) = 0
               /\ heldNotes' = Others(heldNotes, n)
               /\ Len(heldNotes') = Len(heldNotes) - 1
               /\ mostRecent(heldNotes') =
                      (IF Others(heldNotes, n) = <<>> THEN NullNote
                       ELSE Others(heldNotes, n)[Len(Others(heldNotes, n))])]_vars

\* the first of three held notes was released: two remain, in their order
C11_Witness ==
    /\ Len(events) = 1
    /\ events[1].op = "off"
    /\ Len(heldNotes) = 2
    /\ Len(activeOscillators) = 2
    /\ getNoteFromFrequency(events[1].key) = "C"
    /\ heldNotes[1].note = "G"
    /\ mostRecent(heldNotes).note = "A"

\* a noteOff handler (touchend, keyup of a pressed key) for a sounding
\* frequency that holds no voice
NoteOffUnknown ==
    \/ \E n \in Played :
           /\ ~HasKey(activeOscillators, Transpose(NOTE_FREQUENCIES[n], octaveShift))
           /\ TouchEnd(n)
    \/ \E key \in PlayedKeys :
           /\ key \in activeKeys
           /\ ~HasKey(activeOscillators, Transpose(keyboardMap[key], octaveShift))
           /\ KeyUp(key)

\* C12: a noteOff for a sounding frequency that holds no voice changes neither
\* the registry, the ledger, the last-played fallback nor the octave shift,
\* schedules no release and changes no gain; it makes no registry operation.
C12_UnknownNoteOffNoOp ==
    [][NoteOffUnknown =>
           /\ UNCHANGED <<activeOscillators, heldNotes, lastPlayedNote, octaveShift,
                          timers, gain>>
           /\ \A i \in 1..Len(events') : events'[i].op = "miss"]_vars

\* stopNote has just found no voice at its frequency while another note is held
C12_Witness ==
    /\ Len(events) = 1
    /\ events[1].op = "miss"
    /\ ~HasKey(activeOscillators, events[1].key)
    /\ heldNotes # <<>>
    /\ activeOscillators # <<>>

\* C13: every noteOff takes its voice out of the registry in the step that
\* starts the fade-out: after the step the handle is registered nowhere, its
\* level goes to 0 and its release is pending, not yet run; and a release,
\* whenever it runs, leaves the registry, the ledger, the last-played fallback
\* and the octave shift as they were.
C13_RemovedBeforeRelease ==
    [][/\ \A i \in 1..Len(events') :
              events'[i].op = "off" =>
                  /\ events'[i].osc \notin Handles(activeOscillators')
                  /\ events'[i].osc \in timers'
                  /\ events'[i].osc \in DOMAIN gain'
                  /\ gain'[events'[i].osc] = 0
       /\ (\E o \in timers : ReleaseTimer(o)) =>
              UNCHANGED <<activeOscillators, heldNotes, lastPlayedNote, octaveShift>>]_vars

\* the oldest handle has been released while a voice created after it is live
C13_Witness ==
    /\ events = <<>>
    /\ timers = {}
    /\ 1 \notin DOMAIN gain
    /\ Len(activeOscillators) = 1
    /\ activeOscillators[1].osc = 2
    /\ Len(heldNotes) = 1

\* C14: no voice of the registry has a released tone handle, or one whose
\* release is pending: every registered handle exists, is not scheduled for
\* release and ramps to OSC_GAIN, and no two voices share a handle.
C14_LiveHandlesNotReleased ==
    /\ \A v \in Voices(activeOscillators) :
           /\ v.osc \in DOMAIN gain
           /\ v.osc \notin timers
           /\ gain[v.osc] = OSC_GAIN
    /\ \A i, j \in 1..Len(activeOscillators) :
           activeOscillators[i].osc = activeOscillators[j].osc => i = j
    /\ timers \subseteq DOMAIN gain

\* a voice was replaced at its frequency after an earlier release: the new
\* voice is live while the release of the voice it replaced is pending
C14_Witness ==
    /\ Len(events) = 2
    /\ Retriggered
    /\ timers = {events[1].osc}
    /\ events[2].osc < events[1].osc
    /\ \E v \in Voices(activeOscillators) : v.osc = events[2].osc /\ v.key = events[1].key

\* C15: every tone handle whose voice is removed from the registry (by a
\* noteOff, a re-trigger, an octave shift or blur) is released in the end,
\* timeouts being fired eventually: a handle that exists and is registered
\* nowhere leads to the handle being stopped and disconnected.
C15_HandlesReleased ==
    \A o \in 1..MaxOsc :
        (o \in DOMAIN gain /\ o \notin Handles(activeOscillators)) ~> (o \notin DOMAIN gain)

\* every handle of the notes played so far has been released
C15_Witness ==
    /\ lastPlayedNote # NullNote
    /\ activeOscillators = <<>>
    /\ DOMAIN gain = {}
    /\ timers = {}
    /\ octaveShift # 0

\* C16: a move of the volume slider while voices are live leaves every live
\* voice ramping to the target loudness calculateVolume gives for the new
\* master volume and the number of live voices.
C16_VolumeReramps ==
    [][(\E value \in VolumeSteps : VolumeInput(value)) =>
           \A v \in Voices(activeOscillators') :
               gain'[v.osc] = calculateVolume(activeOscillators', MASTER_GAIN')]_vars

\* C17: the target loudness for N live voices and master volume m (1/1000):
\* m for N = 0 and N = 1; for N >= 2 the larger of 0.05 and m / sqrt(N), to
\* one unit of the fixed point; never below min(m, 0.05), and never below
\* 0.05 for N >= 2.
C17_TargetLoudness ==
    LET N == Len(activeOscillators)
        m == MASTER_GAIN
        r == calculateVolume(activeOscillators, MASTER_GAIN)
    IN  /\ N <= 1 => r = m
        /\ N >= 2 =>
               /\ r >= 50
               /\ r > 50 => (r - 1) * (r - 1) * N <= m * m /\ m * m < (r + 1) * (r + 1) * N
               /\ r = 50 => m * m < 51 * 51 * N
        /\ r >= (IF m < 50 THEN m ELSE 50)

\* twelve voices and a master volume for which the floor of 0.05 applies
C17_Witness ==
    /\ Len(activeOscillators) = 12
    /\ MASTER_GAIN = 100
    /\ calculateVolume(activeOscillators, MASTER_GAIN) = 50

\* the pitch classes of the voices of the registry
PitchClasses(act) == {getNoteFromFrequency(v.baseFrequency) : v \in Voices(act)}

\* C18: without any noteOff, a touch noteOn (plain or wheel) for a pitch class
\* that has no voice adds one voice and one ledger entry, and one for a pitch
\* class that has a voice keeps both counts; so from the empty registry, at
\* any octave shift, the voice count and the ledger length are the number of
\* distinct pitch classes played.
C18_CountIsDistinctNotes ==
    [][\A n \in PlayedMany :
           (/\ octaveShift' = octaveShift
            /\ events' # <<>>
            /\ events'[Len(events')] \in
                   [op : {"on"}, key : {Transpose(NOTE_FREQUENCIES[n], octaveShift)},
                    osc : 1..MaxOsc]
            /\ \/ lastPlayedNote' = Plain(n) /\ PianoTouchStart(n)
               \/ \E type \in ChordTypes :
                      lastPlayedNote' = Wheel(n, type) /\ WheelTouchStart(n, type)) =>
               LET new == IF n \in PitchClasses(activeOscillators) THEN 0 ELSE 1
               IN  /\ Len(activeOscillators') = Len(activeOscillators) + new
                   /\ Len(heldNotes') = Len(heldNotes) + new
                   /\ Len(heldNotes') = Len(activeOscillators')
                   /\ Cardinality(PitchClasses(activeOscillators')) = Len(activeOscillators')
                   /\ n \in PitchClasses(activeOscillators')]_vars

\* four pitch classes played at a shifted octave, from the wheel and the piano
C18_Witness ==
    /\ Len(activeOscillators) = 4
    /\ Len(heldNotes) = 4
    /\ PitchClasses(activeOscillators) = PlayedMany
    /\ octaveShift = MIN_OCTAVE_SHIFT
    /\ \E v \in Voices(activeOscillators) : v.chordType \in ChordTypes
    /\ \E v \in Voices(activeOscillators) : v.chordType = "none"
    /\ Len(events) = 1
    /\ events[1].op = "on"

\* a plain noteOn for pitch class n from the keyboard, the piano mouse path or
\* the piano touch path
PlainNoteOn(n) ==
    \/ PianoTouchStart(n)
    \/ PianoMouseDown(n)
    \/ PianoMouseEnter(n)
    \/ \E key \in KeysSettings :
           /\ keyboardMap[key] = NOTE_FREQUENCIES[n]
           /\ key \notin activeKeys
           /\ KeyDown(key)

\* C19: a plain noteOn from the keyboard, the piano mouse path or the piano
\* touch path registers a voice whose isPrimary is majorOnTop when a pitch
\* class three semitones below the note exists, and the negation of
\* majorOnTop otherwise; the three paths give the same value.
C19_PrimaryDerivation ==
    [][\A n \in PlayedSettings :
           (lastPlayedNote' = Plain(n) /\ events' # <<>> /\ PlainNoteOn(n)) =>
               LET f == Transpose(NOTE_FREQUENCIES[n], octaveShift)
                   isMajorChordCenter == shiftNoteBySemitones(n, -3) \in NoteNames
               IN  /\ HasKey(activeOscillators', f)
                   /\ \A v \in Voices(activeOscillators') :
                          v.key = f =>
                              /\ v.chordType = "none"
                              /\ v.isPrimary = (IF isMajorChordCenter THEN majorOnTop
                                                ELSE ~majorOnTop)]_vars

\* E from the keyboard with majorOnTop set, C still sounding from before the
\* setting was changed
C19_Witness ==
    /\ majorOnTop
    /\ activeKeys = {"d"}
    /\ Len(events) = 1
    /\ events[1] \in [op : {"on"}, key : {NOTE_FREQUENCIES["E"]}, osc : 1..MaxOsc]
    /\ \E v \in Voices(activeOscillators) :
           v.key = NOTE_FREQUENCIES["E"] /\ v.isPrimary /\ v.chordType = "none"
    /\ \E v \in Voices(activeOscillators) :
           v.key = NOTE_FREQUENCIES["C"] /\ ~v.isPrimary /\ v.chordType = "none"

\* C20: a wheel noteOn for pitch class n and chord type t registers, whatever
\* majorOnTop is, a voice with chordType t and isPrimary true and engages the
\* ledger entry Wheel(n, t); a change of majorOnTop leaves the registry as it
\* is, and the chord type highlighted as primary for every wheel voice is its
\* chordType before and after.
C20_WheelBypassesSetting ==
    [][/\ \A n \in PlayedSettings, type \in ChordTypes :
              (/\ events' # <<>>
               /\ events'[Len(events')].key = Transpose(NOTE_FREQUENCIES[n], octaveShift)
               /\ majorOnTop' = majorOnTop
               /\ WheelTouchStart(n, type)) =>
                  LET f == Transpose(NOTE_FREQUENCIES[n], octaveShift)
                  IN  /\ HasKey(activeOscillators', f)
                      /\ lastPlayedNote' = Wheel(n, type)
                      /\ \A v \in Voices(activeOscillators') :
                             v.key = f => v.chordType = type /\ v.isPrimary
                      /\ mostRecent(heldNotes') = Wheel(n, type)
       /\ (\E checked \in BOOLEAN : MajorOnTopChange(checked)) =>
              /\ activeOscillators' = activeOscillators
              /\ heldNotes' = heldNotes
              /\ \A v \in Voices(activeOscillators') :
                     v.chordType # "none" =>
                         /\ primaryType(v, majorOnTop') = v.chordType
                         /\ primaryType(v, majorOnTop) = v.chordType]_vars

\* a minor wheel note and a plain note sound with majorOnTop set: the wheel
\* note keeps minor as its primary type, the plain note follows the setting
C20_Witness ==
    /\ majorOnTop
    /\ events = <<>>
    /\ \E v \in Voices(activeOscillators) :
           /\ v.chordType = "minor"
           /\ v.isPrimary
           /\ primaryType(v, majorOnTop) = "minor"
    /\ \E v \in Voices(activeOscillators) :
           /\ v.chordType = "none"
           /\ ~v.isPrimary
           /\ primaryType(v, majorOnTop) = "major"

\* C21: the isPrimary stored in every live plain voice is the primary status
\* derived from the current majorOnTop for the voice's note.
C21_StoredPrimaryCurrent ==
    \A v \in Voices(activeOscillators) :
        v.chordType = "none" => v.isPrimary = derivePrimary(v.baseFrequency, majorOnTop)

\* ------------------------------------------------ display specification
\* wheel and piano touches, touchend, the checkbox, the octave buttons, focus
\* loss and release timers
NextDisplay ==
    \/ \E n \in Played, type \in ChordTypes : WheelTouchStart(n, type)
    \/ \E n \in Played : PianoTouchStart(n)
    \/ \E n \in Played : TouchEnd(n)
    \/ \E checked \in BOOLEAN : MajorOnTopChange(checked)
    \/ OctaveDownClick
    \/ OctaveUpClick
    \/ Blur
    \/ \E o \in 1..MaxOsc : ReleaseTimer(o)

SpecDisplay == Init /\ [][NextDisplay]_vars

\* the entry the centre display is about: the most recent held note, else the
\* last played one
Displayed == IF heldNotes # <<>> THEN mostRecent(heldNotes) ELSE lastPlayedNote

\* C23: the centre display shows the most recent ledger entry when the ledger
\* is non-empty, the last-played fallback when it is empty and a note has been
\* played, and no note only when none has ever been played; the chord type on
\* top is the clicked type for a wheel entry and major iff majorOnTop for a
\* plain one.
C23_DisplayFromLedger ==
    /\ heldNotes # <<>> => centerDisplay.note = heldNotes[Len(heldNotes)].note
    /\ heldNotes = <<>> /\ lastPlayedNote # NullNote =>
           centerDisplay.note = lastPlayedNote.note
    /\ centerDisplay.note \in {"--", "markup"} =>
           heldNotes = <<>> /\ lastPlayedNote = NullNote
    /\ Displayed # NullNote /\ Displayed.source = "wheel" =>
           centerDisplay.top = Displayed.type
    /\ Displayed # NullNote /\ Displayed.source = "plain" =>
           (centerDisplay.top = "major") = majorOnTop

C23_Witness ==
    /\ heldNotes = <<>>
    /\ lastPlayedNote = Wheel("C", "minor")
    /\ majorOnTop
    /\ centerDisplay = [note |-> "C", top |-> "minor"]
    /\ octaveShift = 1

\* C24: every live voice sounds at its base frequency transposed by the
\* current octave shift; so no two live voices share a pitch class and there
\* are at most twelve of them.
C24_SoundsAtShiftedBase ==
    /\ \A v \in Voices(activeOscillators) :
           v.key = Transpose(v.baseFrequency, octaveShift)
    /\ \A i, j \in 1..Len(activeOscillators) :
           getNoteFromFrequency(activeOscillators[i].baseFrequency)
               = getNoteFromFrequency(activeOscillators[j].baseFrequency) => i = j
    /\ Len(activeOscillators) <= Len(noteOrder)

C24_Witness ==
    /\ octaveShift = -1
    /\ Len(activeOscillators) = 2
    /\ \A v \in Voices(activeOscillators) : v.key * 2 = v.baseFrequency
    /\ \E v \in Voices(activeOscillators) : v.chordType # "none"

\* C25: the pitch classes of the ledger are those of the live voices, one
\* entry per voice; an entry is Wheel(p, t) exactly when the voice of pitch
\* class p carries chordType t, and plain exactly when it carries none.
C25_LedgerMatchesRegistry ==
    /\ {heldNotes[i].note : i \in 1..Len(heldNotes)} = PitchClasses(activeOscillators)
    /\ Len(heldNotes) = Len(activeOscillators)
    /\ \A i \in 1..Len(heldNotes) : \A v \in Voices(activeOscillators) :
           getNoteFromFrequency(v.baseFrequency) = heldNotes[i].note =>
               /\ heldNotes[i].source = "wheel" <=> v.chordType # "none"
               /\ heldNotes[i].source = "plain" <=> v.chordType = "none"
               /\ heldNotes[i].type = v.chordType

C25_Witness ==
    /\ Len(heldNotes) = 2
    /\ \E i \in 1..2 : heldNotes[i] = Wheel("G", "minor")
    /\ \E i \in 1..2 : heldNotes[i] = Plain("C")
    /\ \E v \in Voices(activeOscillators) : v.chordType = "minor"
    /\ timers # {}

\* the pitch classes of the ledger, in ledger order
NotesOf(held) == [i \in 1..Len(held) |-> held[i].note]

\* C26: an accepted octave shift keeps the order of the ledger: the same pitch
\* classes in the same order before and after, so the most recent entry names
\* the same pitch class.
C26_ShiftKeepsLedgerOrder ==
    [][octaveShift' # octaveShift /\ ShiftAccepted =>
           /\ NotesOf(heldNotes') = NotesOf(heldNotes)
           /\ mostRecent(heldNotes').note = mostRecent(heldNotes).note]_vars

\* C27: for every mapped key in the pressed-key set a voice is live at the
\* key's base frequency transposed by the current octave shift.
C27_HeldKeySounds ==
    \A key \in activeKeys :
        key \in DOMAIN keyboardMap =>
            \E v \in Voices(activeOscillators) :
                /\ v.key = Transpose(keyboardMap[key], octaveShift)
                /\ v.baseFrequency = keyboardMap[key]

\* C28: a keydown for a mapped key that is in the pressed-key set and a keyup
\* for a mapped key that is not in it change nothing of the engine: registry,
\* ledger, fallback, pressed keys, octave, gains, timers and display stay as
\* they are and no registry operation is made.
C28_KeyDebounce ==
    [][(\E key \in PlayedKeys :
            \/ key \in activeKeys /\ KeyDown(key)
            \/ key \notin activeKeys /\ KeyUp(key))
       => /\ events' = <<>>
          /\ UNCHANGED <<activeOscillators, heldNotes, lastPlayedNote, octaveShift,
                         activeKeys, isMouseDown, currentPlayingFrequency, majorOnTop,
                         MASTER_GAIN, gain, timers, centerDisplay>>]_vars

\* the key a is held, its voice is the only tone handle and the last handler
\* made no registry operation
C28_Witness ==
    /\ activeKeys = {"a"}
    /\ events = <<>>
    /\ octaveShift = 0
    /\ timers = {}
    /\ DOMAIN gain = {1}
    /\ Len(activeOscillators) = 1
    /\ activeOscillators[1].baseFrequency = keyboardMap["a"]
    /\ heldNotes = <<Plain("C")>>
    /\ lastPlayedNote = Plain("C")

\* C29: a tone handle gets at most one release task: every stopNote a handler
\* executes is for a handle that has no release task yet and that no other
\* stopNote of the same handler is for, and it sets the handle's release task;
\* a pending release task is always for a handle that still exists.
C29_OneReleasePerHandle ==
    [][/\ \A i \in 1..Len(events') :
              events'[i].op = "off" =>
                  /\ events'[i].osc \notin timers
                  /\ events'[i].osc \in timers'
                  /\ \A j \in 1..Len(events') :
                         events'[j].op = "off" /\ events'[j].osc = events'[i].osc => j = i
       /\ timers' \subseteq DOMAIN gain'
       /\ \A o \in timers : o \in timers' \/ o \notin DOMAIN gain']_vars

\* two voices stopped by one handler while an earlier release is pending
C29_Witness ==
    /\ Len(events) = 2
    /\ events[1].op = "off" /\ events[2].op = "off"
    /\ Cardinality(timers) = 3
    /\ activeOscillators = <<>>

\* ------------------------------------------------ mouse-drag specification
\* mouse input on the wheel and the piano, piano touches, touchend, the octave
\* buttons, focus loss and release timers
NextDrag ==
    \/ \E n \in Played, type \in ChordTypes : WheelMouseDown(n, type)
    \/ \E n \in Played, type \in ChordTypes : WheelMouseEnter(n, type)
    \/ \E n \in Played : PianoMouseDown(n)
    \/ \E n \in Played : PianoMouseEnter(n)
    \/ MouseUp
    \/ \E n \in Played : PianoTouchStart(n)
    \/ \E n \in Played : TouchEnd(n)
    \/ OctaveDownClick
    \/ OctaveUpClick
    \/ Blur
    \/ \E o \in 1..MaxOsc : ReleaseTimer(o)

SpecDrag == Init /\ [][NextDrag]_vars

\* the mouse, held down on one note, enters the element of note n
DragEnter(n) ==
    /\ isMouseDown
    /\ currentPlayingFrequency # 0
    /\ currentPlayingFrequency # NOTE_FREQUENCIES[n]
    /\ (PianoMouseEnter(n) \/ \E type \in ChordTypes : WheelMouseEnter(n, type))

\* C30: the mouse holds at most one note: currentPlayingFrequency is null
\* whenever the mouse button is not down; entering another note during a drag
\* issues the noteOff of the note the mouse held before the noteOn of the new
\* one; after mouseup no voice is live at the frequency the mouse last held,
\* transposed by the octave shift.
C30_MouseHoldsOneNote ==
    /\ [](~isMouseDown => currentPlayingFrequency = 0)
    /\ [][\A n \in Played :
              DragEnter(n) =>
                  /\ Len(events') >= 2
                  /\ events'[1].op \in {"off", "miss"}
                  /\ events'[1].key = Transpose(currentPlayingFrequency, octaveShift)
                  /\ events'[Len(events')].op = "on"
                  /\ events'[Len(events')].key = Transpose(NOTE_FREQUENCIES[n], octaveShift)
                  /\ \A i \in 1..(Len(events') - 1) : events'[i].op # "on"
                  /\ currentPlayingFrequency' = NOTE_FREQUENCIES[n]
                  /\ ~HasKey(activeOscillators',
                             Transpose(currentPlayingFrequency, octaveShift))]_vars
    /\ [][currentPlayingFrequency # 0 /\ MouseUp =>
              /\ ~HasKey(activeOscillators',
                         Transpose(currentPlayingFrequency, octaveShift'))
              /\ currentPlayingFrequency' = 0
              /\ ~isMouseDown']_vars

\* the mouse has been dragged from C onto G at a shifted octave
C30_Witness ==
    /\ isMouseDown
    /\ octaveShift = 1
    /\ currentPlayingFrequency = NOTE_FREQUENCIES["G"]
    /\ Len(events) = 2
    /\ events[1] = [op |-> "off", key |-> Transpose(NOTE_FREQUENCIES["C"], 1), osc |-> 1]
    /\ events[2].op = "on"
    /\ events[2].key = Transpose(NOTE_FREQUENCIES["G"], 1)

====
